---- MODULE Spec2Model ----
(***************************************************************************)
(* A model of zopen-server.go: the MCP adapter that turns tool calls into  *)
(* zopen / zopen-generate / ssh child processes and their output into tool *)
(* results.                                                                *)
(*                                                                         *)
(* Go strings are modelled as sequences of atoms.  An atom is a TLA+       *)
(* string standing for one piece of text; the empty Go string is << >>.    *)
(* String concatenation (fmt.Sprintf, strings.Join) is \o, so that         *)
(* strings.HasPrefix, "contains" and equality are decided on the text the  *)
(* code builds.  The two glyphs the code prints are the atoms CrossMark    *)
(* and CheckMark.                                                          *)
(***************************************************************************)
EXTENDS Integers, Sequences, FiniteSets, TLC

(* ----------------------------- bounds ---------------------------------- *)

\* Largest exit status a child process chooses for itself (0..MaxExit).
MaxExit == 2

\* Longest package list a request carries.
MaxPkgs == 2

\* Number of tool calls the transport may have in flight at once (SpecConc).
NumCalls == 2

\* Most requests the input stream carries before it ends (SpecMain).
MaxRequests == 2

(* ----------------------------- strings --------------------------------- *)

\* The glyph U+274C, the first character of every failure text.
CrossMark == "[cross mark]"

\* The glyph U+2705, the first character of the success marker.
CheckMark == "[check mark]"

\* strings.HasPrefix(s, "<glyph>")
HasPrefix(s, glyph) == Len(s) > 0 /\ s[1] = glyph

\* strings.Contains(s, sub) on atom sequences
Contains(s, sub) ==
  \E i \in 0..(Len(s) - Len(sub)) : \A j \in 1..Len(sub) : s[i + j] = sub[j]

RECURSIVE Join(_, _)
\* strings.Join(elems, sep)
Join(elems, sep) ==
  IF Len(elems) = 0 THEN << >>
  ELSE IF Len(elems) = 1 THEN elems[1]
  ELSE elems[1] \o sep \o Join(Tail(elems), sep)

Digit(d) == <<"0", "1", "2", "3", "4", "5", "6", "7", "8", "9">>[d + 1]

RECURSIVE NatToStr(_)
NatToStr(n) == IF n < 10 THEN <<Digit(n)>> ELSE NatToStr(n \div 10) \o <<Digit(n % 10)>>

\* fmt.Sprintf("%d", n)
IntToStr(n) == IF n < 0 THEN <<"-">> \o NatToStr(0 - n) ELSE NatToStr(n)

(* --------------------------- configuration ----------------------------- *)

\* A one-atom Go string.
S(a) == <<a>>

\* The values the command-line flags are given (main, flag.*Var).
Hosts == {<< >>, S("h")}
Users == {<< >>, S("u")}
Keys == {<< >>, <<"/", "k">>}
Ports == {22, 2222}
ZopenPaths == {<< >>, <<"/", "opt", "/", "zopen">>}

\* type Config struct
Config ==
  [Remote : BOOLEAN, Host : Hosts, User : Users, Key : Keys, Port : Ports,
   ZopenPath : ZopenPaths]

\* Mutant of ValidConfig: main does not look at the flags.
ValidConfigUnchecked(c) == TRUE

\* main: "--host is required when using --remote mode", else os.Exit(1).
ValidConfig(c) == ~(c.Remote /\ c.Host = << >>)

\* The configurations the server is started with: local with and without
\* --zopen-path, and remote with every choice of user, key and port.
StartConfigs ==
  {c \in Config :
     /\ ValidConfig(c)
     /\ c.Remote => c.ZopenPath = << >>
     /\ ~c.Remote => (c.Host = << >> /\ c.User = << >> /\ c.Key = << >> /\ c.Port = 22)}

(* ---------------------------- environment ------------------------------ *)

\* The working directory of the server process (os.Getwd, used by filepath.Abs).
Cwd == <<"/", "srv">>

\* Directories present on the local filesystem.
ExistingDirs == {<<"/", "proj">>, <<"/", "srv", "/", "work">>}

\* Paths os.Stat fails on with an error other than "not exist" (EACCES).
UnreadableDirs == {<<"/", "locked", "/", "x">>}

\* exec.LookPath("zopen-generate") when it succeeds.
GeneratePath == <<"/", "usr", "/", "bin", "/", "zopen-generate">>

RECURSIVE Clean(_)
\* filepath.Clean, as far as the paths of this model need it: trailing
\* separators are dropped, the root stays "/".
Clean(p) ==
  IF Len(p) > 1 /\ p[Len(p)] = "/" THEN Clean(SubSeq(p, 1, Len(p) - 1)) ELSE p

\* filepath.IsAbs
IsAbs(p) == Len(p) > 0 /\ p[1] = "/"

\* filepath.Abs(path) when os.Getwd succeeds: Clean(path) if absolute,
\* else Join(cwd, path).
Abs(p) == IF IsAbs(p) THEN Clean(p) ELSE Clean(Cwd \o <<"/">> \o p)

\* os.Stat(absPath): "ok", "notexist" (os.IsNotExist) or "other".
Stat(p) ==
  IF p \in ExistingDirs THEN "ok"
  ELSE IF p \in UnreadableDirs THEN "other"
  ELSE "notexist"

(* ------------------------------ requests ------------------------------- *)

\* Package lists of length 0..MaxPkgs: <<pkg1, pkg2, ...>>.
PkgLists == {[i \in 1..n |-> <<"pkg", Digit(i)>>] : n \in 0..MaxPkgs}

\* A string parameter: absent/empty, or the given value.
Opt(v) == {<< >>, v}

\* The directories zopen_build is called with.
Directories ==
  {<< >>, <<"/", "proj">>, <<"/", "proj", "/">>, <<"/", "gone">>, S("work"),
   S("nowhere"), <<"/", "locked", "/", "x">>}

\* The json names of the optional parameters of ZopenGenerateParams.
OptionNames ==
  {"type", "build_system", "stable_url", "stable_deps", "dev_url", "dev_deps",
   "build_line", "runtime_deps", "force"}

\* type ZopenGenerateParams struct, with the optional parameters in `set` given.
GenerateParams(n, d, c, l, set) ==
  [Name |-> n, Description |-> d, Categories |-> c, License |-> l,
   Type |-> IF "type" \in set THEN S("BARE") ELSE << >>,
   BuildSystem |-> IF "build_system" \in set THEN S("make") ELSE << >>,
   StableUrl |-> IF "stable_url" \in set THEN S("https://s") ELSE << >>,
   StableDeps |-> IF "stable_deps" \in set THEN S("curl") ELSE << >>,
   DevUrl |-> IF "dev_url" \in set THEN S("https://d") ELSE << >>,
   DevDeps |-> IF "dev_deps" \in set THEN S("git") ELSE << >>,
   BuildLine |-> IF "build_line" \in set THEN S("STABLE") ELSE << >>,
   RuntimeDeps |-> IF "runtime_deps" \in set THEN S("ncurses") ELSE << >>,
   Force |-> "force" \in set]

\* The optional parameters given together: none, each one alone, all.
OptionProfiles == {{}} \cup {{o} : o \in OptionNames} \cup {OptionNames}

\* The generate requests: every combination of the required parameters with no
\* optional one, and every optional profile with all required ones.
GenerateRequests ==
       {[tool |-> "zopen_generate", args |-> GenerateParams(n, d, c, l, {})] :
          n \in Opt(S("foo")), d \in Opt(S("a tool")), c \in Opt(S("utilities")),
          l \in Opt(S("MIT"))}
  \cup {[tool |-> "zopen_generate",
         args |-> GenerateParams(S("foo"), S("a tool"), S("utilities"), S("MIT"), o)] :
          o \in OptionProfiles}

NoArgs == [none |-> TRUE]

\* The tool calls a client can send: tool name and typed parameter object.
Requests ==
       {[tool |-> "zopen_list", args |-> [Verbose |-> v]] : v \in BOOLEAN}
  \cup {[tool |-> t, args |-> [Packages |-> p, Verbose |-> v]] :
          t \in {"zopen_query", "zopen_install", "zopen_remove"},
          p \in PkgLists, v \in BOOLEAN}
  \cup {[tool |-> "zopen_upgrade", args |-> [Packages |-> p, Verbose |-> v, Yes |-> y]] :
          p \in PkgLists, v \in BOOLEAN, y \in BOOLEAN}
  \cup {[tool |-> "zopen_info", args |-> [Package |-> p, Verbose |-> v]] :
          p \in Opt(S("bash")), v \in BOOLEAN}
  \cup {[tool |-> t, args |-> NoArgs] :
          t \in {"zopen_version", "zopen_init", "zopen_build_help",
                 "zopen_generate_help", "zopen_generate_version",
                 "zopen_generate_list_licenses", "zopen_generate_list_categories",
                 "zopen_generate_list_build_systems"}}
  \cup {[tool |-> "zopen_clean",
         args |-> [Cache |-> c, Unused |-> u, Dangling |-> d, All |-> a]] :
          c \in BOOLEAN, u \in BOOLEAN, d \in BOOLEAN, a \in BOOLEAN}
  \cup {[tool |-> "zopen_alt", args |-> [Package |-> p, Switch |-> s]] :
          p \in Opt(S("bash")), s \in Opt(S("5.2"))}
  \cup {[tool |-> "zopen_build", args |-> [Directory |-> d, Verbose |-> v, Force |-> f]] :
          d \in Directories, v \in BOOLEAN, f \in BOOLEAN}
  \cup {[tool |-> "zopen_create_repo", args |-> [Name |-> n, Description |-> d, User |-> u]] :
          n \in Opt(S("fooport")), d \in Opt(S("a port")), u \in Opt(S("alice"))}
  \cup GenerateRequests

(* -------------------------- command builder ---------------------------- *)

\* The tools whose handlers belong to ZopenGenerateTools.
GenerateTools ==
  {"zopen_generate", "zopen_generate_help", "zopen_generate_version",
   "zopen_generate_list_licenses", "zopen_generate_list_categories",
   "zopen_generate_list_build_systems"}

\* `tokens` if `cond`, else nothing: if cond { args = append(args, tokens...) }
When(cond, tokens) == IF cond THEN tokens ELSE << >>

\* Mutant of ZopenCleanArgs: --all is appended before --dangling.
ZopenCleanArgsSwapped(a) ==
  <<S("clean")>> \o When(a.Cache, <<S("--cache")>>)
    \o When(a.Unused, <<S("--unused")>>)
    \o When(a.All, <<S("--all")>>)
    \o When(a.Dangling, <<S("--dangling")>>)

\* ZopenClean: zopenArgs.
ZopenCleanArgs(a) ==
  <<S("clean")>> \o When(a.Cache, <<S("--cache")>>)
    \o When(a.Unused, <<S("--unused")>>)
    \o When(a.Dangling, <<S("--dangling")>>)
    \o When(a.All, <<S("--all")>>)

\* Mutant of ZopenGenerateArgs: --non-interactive is appended only when no
\* --force is.
ZopenGenerateArgsPrompting(a) ==
  <<S("--name"), a.Name, S("--description"), a.Description,
    S("--categories"), a.Categories, S("--license"), a.License>>
    \o When(a.Type # << >>, <<S("--type"), a.Type>>)
    \o When(a.BuildSystem # << >>, <<S("--build-system"), a.BuildSystem>>)
    \o When(a.StableUrl # << >>, <<S("--stable-url"), a.StableUrl>>)
    \o When(a.StableDeps # << >>, <<S("--stable-deps"), a.StableDeps>>)
    \o When(a.DevUrl # << >>, <<S("--dev-url"), a.DevUrl>>)
    \o When(a.DevDeps # << >>, <<S("--dev-deps"), a.DevDeps>>)
    \o When(a.BuildLine # << >>, <<S("--build-line"), a.BuildLine>>)
    \o When(a.RuntimeDeps # << >>, <<S("--runtime-deps"), a.RuntimeDeps>>)
    \o When(a.Force, <<S("--force")>>)
    \o When(~a.Force, <<S("--non-interactive")>>)

\* ZopenGenerate: cmdArgs.
ZopenGenerateArgs(a) ==
  <<S("--name"), a.Name, S("--description"), a.Description,
    S("--categories"), a.Categories, S("--license"), a.License,
    S("--non-interactive")>>
    \o When(a.Type # << >>, <<S("--type"), a.Type>>)
    \o When(a.BuildSystem # << >>, <<S("--build-system"), a.BuildSystem>>)
    \o When(a.StableUrl # << >>, <<S("--stable-url"), a.StableUrl>>)
    \o When(a.StableDeps # << >>, <<S("--stable-deps"), a.StableDeps>>)
    \o When(a.DevUrl # << >>, <<S("--dev-url"), a.DevUrl>>)
    \o When(a.DevDeps # << >>, <<S("--dev-deps"), a.DevDeps>>)
    \o When(a.BuildLine # << >>, <<S("--build-line"), a.BuildLine>>)
    \o When(a.RuntimeDeps # << >>, <<S("--runtime-deps"), a.RuntimeDeps>>)
    \o When(a.Force, <<S("--force")>>)

\* The argument list each handler builds from its parameter object.
ZopenArgs(req) ==
  LET a == req.args IN
  CASE req.tool = "zopen_list" ->
         <<S("list")>> \o When(a.Verbose, <<S("--verbose")>>)
    [] req.tool = "zopen_query" ->
         <<S("query")>> \o When(a.Verbose, <<S("--verbose")>>)
           \o When(Len(a.Packages) > 0, a.Packages)
    [] req.tool = "zopen_install" ->
         <<S("install")>> \o When(a.Verbose, <<S("--verbose")>>) \o a.Packages
    [] req.tool = "zopen_remove" ->
         <<S("remove")>> \o When(a.Verbose, <<S("--verbose")>>) \o a.Packages
    [] req.tool = "zopen_upgrade" ->
         <<S("upgrade")>> \o When(a.Yes, <<S("--yes")>>)
           \o When(a.Verbose, <<S("--verbose")>>)
           \o When(Len(a.Packages) > 0, a.Packages)
    [] req.tool = "zopen_info" ->
         <<S("info"), a.Package>> \o When(a.Verbose, <<S("--verbose")>>)
    [] req.tool = "zopen_version" -> <<S("version")>>
    [] req.tool = "zopen_init" -> <<S("init")>>
    [] req.tool = "zopen_clean" -> ZopenCleanArgs(a)
    [] req.tool = "zopen_alt" ->
         <<S("alt")>> \o When(a.Package # << >>, <<a.Package>>)
           \o When(a.Switch # << >>, <<S("-s"), a.Switch>>)
    [] req.tool = "zopen_build" ->
         <<S("build")>> \o When(a.Verbose, <<S("-vv")>>) \o When(a.Force, <<S("-f")>>)
    [] req.tool = "zopen_build_help" -> <<S("build"), S("--help")>>
    [] req.tool = "zopen_create_repo" ->
         <<S("create-repo"), S("-v"), S("-n"), a.Name>>
           \o When(a.Description # << >>, <<S("-d"), a.Description>>)
           \o When(a.User # << >>, <<S("-u"), a.User>>)
    [] req.tool = "zopen_generate" -> ZopenGenerateArgs(a)
    [] req.tool = "zopen_generate_help" -> <<S("--help")>>
    [] req.tool = "zopen_generate_version" -> <<S("--version")>>
    [] req.tool = "zopen_generate_list_licenses" -> <<S("--json"), S("--list-licenses")>>
    [] req.tool = "zopen_generate_list_categories" -> <<S("--json"), S("--list-categories")>>
    [] req.tool = "zopen_generate_list_build_systems" ->
         <<S("--json"), S("--list-build-systems")>>

\* Mutant of QuoteArgs: the arguments are passed on without quotes.
QuoteArgsUnquoted(zopenArgs) == zopenArgs

\* for _, arg := range zopenArgs { quotedArgs = append(quotedArgs, `"` + arg + `"`) }
QuoteArgs(zopenArgs) == [i \in 1..Len(zopenArgs) |-> <<"\"">> \o zopenArgs[i] \o <<"\"">>]

\* sshArgs up to and including the target: -p port, -i key, the -o options, target.
SSHOptions(config) ==
  <<S("-p"), IntToStr(config.Port)>>
    \o When(config.Key # << >>, <<S("-i"), config.Key>>)
    \o <<S("-o"), S("StrictHostKeyChecking=no"),
         S("-o"), S("UserKnownHostsFile=/dev/null"),
         S("-o"), S("LogLevel=ERROR")>>
    \o <<IF config.User # << >> THEN config.User \o <<"@">> \o config.Host
         ELSE config.Host>>

\* fmt.Sprintf("/bin/sh -c \"%s\"", innerCommand)
RemoteCmd(innerCommand) == <<"/bin/sh -c ", "\"">> \o innerCommand \o <<"\"">>

\* ZopenExecutor.buildSSHCommand
buildSSHCommand(config, zopenArgs) ==
  <<S("ssh")>> \o SSHOptions(config)
    \o <<RemoteCmd(<<". ~/.profile && ", "zopen ">> \o Join(QuoteArgs(zopenArgs), <<" ">>))>>

\* Mutant of buildSSHCommandInDirectory: the directory is changed before the
\* profile is sourced.
buildSSHCommandCdFirst(config, directory, zopenArgs) ==
  <<S("ssh")>> \o SSHOptions(config)
    \o <<RemoteCmd(<<"cd ">> \o directory \o <<" && ", ". ~/.profile && ", "zopen ">>
                     \o Join(QuoteArgs(zopenArgs), <<" ">>))>>

\* The ssh command handleZopenCommandInDirectory builds in remote mode.
buildSSHCommandInDirectory(config, directory, zopenArgs) ==
  <<S("ssh")>> \o SSHOptions(config)
    \o <<RemoteCmd(<<". ~/.profile && ", "cd ">> \o directory \o <<" && ", "zopen ">>
                     \o Join(QuoteArgs(zopenArgs), <<" ">>))>>

\* ZopenExecutor.RunCommand: commandToRun.
CommandToRun(config, zopenArgs) ==
  IF config.Remote THEN buildSSHCommand(config, zopenArgs)
  ELSE <<S("zopen")>> \o zopenArgs

(* ---------------------------- tool results ----------------------------- *)

\* &mcp.CallToolResult{Content: []mcp.Content{&mcp.TextContent{Text: text}},
\*                     IsError: isError}, nil, nil
ToolResult(text, isError) ==
  [Content |-> <<[Text |-> text]>>, IsError |-> isError, Err |-> "nil"]

\* What an executor's RunCommand returns: (output, nil) or ("", error).
Output(text) == [output |-> text, failed |-> FALSE, msg |-> << >>]
Failure(msg) == [output |-> << >>, failed |-> TRUE, msg |-> msg]

SuccessMarker == <<CheckMark, " Command successful with no output.">>

\* fmt.Sprintf("<glyph> Error (Exit Code: %d):\n%s", code, text)
ExitCodeText(code, text) ==
  <<CrossMark, " Error (Exit Code: ">> \o IntToStr(code) \o <<"):\n">> \o text

\* The required-parameter checks at the head of ZopenBuild, ZopenCreateRepo and
\* ZopenGenerate: the error text, or << >> when the handler goes on.
RequiredCheck(req) ==
  LET a == req.args IN
  CASE req.tool = "zopen_build" /\ a.Directory = << >> ->
         <<CrossMark, " Error: ", "directory", " parameter is required">>
    [] req.tool = "zopen_create_repo" /\ a.Name = << >> ->
         <<CrossMark, " Error: ", "name", " parameter is required">>
    [] req.tool = "zopen_generate"
         /\ (a.Name = << >> \/ a.Description = << >> \/ a.Categories = << >>
             \/ a.License = << >>) ->
         <<CrossMark, " Error: Required parameters missing. ", "name", ", ",
           "description", ", ", "categories", ", and ", "license", " are required.">>
    [] OTHER -> << >>

\* Mutant of DirectoryCheck: the os.Stat check is left out.
DirectoryCheckSkipped(config, req) == << >>

\* ZopenBuild in local mode: the os.Stat check of the absolute path.
DirectoryCheck(config, req) ==
  IF req.tool = "zopen_build" /\ ~config.Remote /\ req.args.Directory # << >>
       /\ Stat(Abs(req.args.Directory)) = "notexist"
  THEN <<CrossMark, " Error: directory does not exist: ">> \o Abs(req.args.Directory)
  ELSE << >>

\* The text a handler answers with before it runs anything, or << >>.
EarlyError(config, req) ==
  IF RequiredCheck(req) # << >> THEN RequiredCheck(req) ELSE DirectoryCheck(config, req)

\* Mutant of Command: in remote mode the zopen-generate tools go through ssh
\* like the zopen tools.
CommandGenerateRemote(config, req) ==
  IF req.tool \in GenerateTools
  THEN [argv |-> IF config.Remote
                 THEN <<S("ssh")>> \o SSHOptions(config)
                        \o <<RemoteCmd(<<". ~/.profile && ", "zopen-generate ">>
                                         \o Join(QuoteArgs(ZopenArgs(req)), <<" ">>))>>
                 ELSE <<GeneratePath>> \o ZopenArgs(req),
        dir |-> << >>]
  ELSE IF req.tool = "zopen_build"
  THEN IF ~config.Remote
       THEN [argv |-> <<S("zopen")>> \o ZopenArgs(req), dir |-> Abs(req.args.Directory)]
       ELSE [argv |-> buildSSHCommandInDirectory(config, req.args.Directory, ZopenArgs(req)),
             dir |-> << >>]
  ELSE [argv |-> CommandToRun(config, ZopenArgs(req)), dir |-> << >>]

\* The command a handler runs once its checks have passed: argument vector and
\* working directory (cmd.Dir, << >> when unset).
Command(config, req) ==
  IF req.tool \in GenerateTools
  THEN [argv |-> <<GeneratePath>> \o ZopenArgs(req), dir |-> << >>]
  ELSE IF req.tool = "zopen_build"
  THEN IF ~config.Remote
       THEN [argv |-> <<S("zopen")>> \o ZopenArgs(req), dir |-> Abs(req.args.Directory)]
       ELSE [argv |-> buildSSHCommandInDirectory(config, req.args.Directory, ZopenArgs(req)),
             dir |-> << >>]
  ELSE [argv |-> CommandToRun(config, ZopenArgs(req)), dir |-> << >>]

\* cmd.ProcessState.ExitCode(): -1 when the process never started (nil state).
ExitCode(run) == IF run.started THEN run.code ELSE 0 - 1

\* ZopenExecutor.RunCommand after cmd.Run().
RunCommand(run) ==
  IF run.err # "nil"
  THEN IF run.err = "notfound"
       THEN Failure(<<CrossMark, " Error: Command '">> \o run.argv[1]
                      \o <<"' not found. Is it in your PATH?">>)
       ELSE Output(ExitCodeText(ExitCode(run), run.stderr))
  ELSE IF run.stdout = << >> THEN Output(SuccessMarker) ELSE Output(run.stdout)

\* ZopenGenerateExecutor.RunCommand after cmd.Run().
GenerateRunCommand(run) ==
  IF run.err # "nil"
  THEN IF run.err = "notfound"
       THEN Failure(<<CrossMark, " Error: Command '">> \o run.argv[1] \o <<"' not found">>)
       ELSE Output(ExitCodeText(ExitCode(run), run.stderr \o <<"\n">> \o run.stdout))
  ELSE LET output == IF Len(run.stderr) > 0
                     THEN run.stdout \o <<"\n">> \o run.stderr
                     ELSE run.stdout
       IN IF output = << >> THEN Output(SuccessMarker) ELSE Output(output)

\* ZopenGenerateExecutor.RunCommand when exec.LookPath("zopen-generate") fails.
GenerateNotFound == Failure(<<CrossMark, " Error: ", "zopen-generate", " not found in PATH">>)

\* Mutant of FlagByPrefix: the executor's error is handed to the transport
\* (return nil, nil, err).
FlagByPrefixPropagating(r) ==
  IF r.failed THEN [Content |-> << >>, IsError |-> FALSE, Err |-> "error"]
  ELSE ToolResult(r.output, HasPrefix(r.output, CrossMark))

\* handleZopenCommand, ZopenCreateRepo, ZopenGenerate: the error flag is the
\* executor's error, else strings.HasPrefix(output, "<glyph>").
FlagByPrefix(r) ==
  IF r.failed THEN ToolResult(r.msg, TRUE)
  ELSE ToolResult(r.output, HasPrefix(r.output, CrossMark))

\* ZopenBuildHelp and the zopen_generate help, version and list handlers: the
\* error flag is the executor's error only.
FlagByError(r) ==
  IF r.failed THEN ToolResult(r.msg, TRUE) ELSE ToolResult(r.output, FALSE)

\* ZopenBuild in local mode after cmd.Run().
BuildLocalResult(run) ==
  LET output == IF Len(run.stderr) > 0
                THEN run.stdout \o <<"\n">> \o run.stderr
                ELSE run.stdout
  IN IF run.err # "nil"
     THEN ToolResult(ExitCodeText(ExitCode(run), output), TRUE)
     ELSE ToolResult(output, FALSE)

\* handleZopenCommandInDirectory in remote mode after cmd.Run().
BuildRemoteResult(run) ==
  IF run.err # "nil"
  THEN ToolResult(ExitCodeText(ExitCode(run), run.stderr), TRUE)
  ELSE IF run.stdout = << >> THEN ToolResult(SuccessMarker, FALSE)
  ELSE ToolResult(run.stdout, FALSE)

\* The tools whose handler sets IsError from the executor's error alone.
UnflaggedTools ==
  {"zopen_build_help", "zopen_generate_help", "zopen_generate_version",
   "zopen_generate_list_licenses", "zopen_generate_list_categories",
   "zopen_generate_list_build_systems"}

\* The result the handler of `req` returns for the finished run `run`.
HandlerResult(config, req, run) ==
  IF req.tool = "zopen_build"
  THEN IF ~config.Remote THEN BuildLocalResult(run) ELSE BuildRemoteResult(run)
  ELSE LET r == IF req.tool \in GenerateTools THEN GenerateRunCommand(run)
                ELSE RunCommand(run)
       IN IF req.tool \in UnflaggedTools THEN FlagByError(r) ELSE FlagByPrefix(r)

(* ---------------------------- state machine ---------------------------- *)

VARIABLES
  config,   \* the *Config shared by every handler
  calls,    \* per call slot: the handler's position, its locals, its child process
  bufs,     \* per call slot: the bytes.Buffer pair cmd.Stdout / cmd.Stderr
  server,   \* main: its position, the registered tools, the exit status
  env,      \* the environment of the process: the DEBUG variable
  log,      \* the lines written through the log package
  stdin     \* the number of requests still to come on the input stream

vars == <<config, calls, bufs, server, env, log, stdin>>

\* The call slots of the server.
Calls == 1..NumCalls

NoRequest == [tool |-> "none", args |-> NoArgs]

EmptyBufs == [stdout |-> << >>, stderr |-> << >>]

\* A slot with no call in it.
IdleCall ==
  [pc |-> "idle", req |-> NoRequest, ctxDone |-> FALSE, argv |-> << >>, dir |-> << >>,
   child |-> "none", err |-> "nil", code |-> 0, out |-> << >>, errout |-> << >>,
   spawned |-> 0, runs |-> 0, absErr |-> FALSE, results |-> << >>]

\* What a child process writes and how it exits.
Stdouts == {<< >>, S("out"), <<CrossMark, " not ok">>}
Stderrs == {<< >>, S("warn")}
Behaviours == [out : Stdouts, err : Stderrs, code : 0..MaxExit]

\* What a child has written when it is killed.
KilledOutputs == {[out |-> << >>, err |-> << >>], [out |-> S("part"), err |-> S("warn")]}

\* Mutant of BufferOf: one package-level buffer pair for every call.
BufferShared(c) == 1

\* `var stdout, stderr bytes.Buffer`: the buffers of call c are its own.
BufferOf(c) == c

\* Mutant of NewBuffers: the buffers are package-level variables that keep
\* what the calls before wrote into them.
NewBuffersReused(old) == old

\* `var stdout, stderr bytes.Buffer`: the zero value, two empty buffers,
\* whatever the memory held before.
NewBuffers(old) == EmptyBufs

\* Mutant of RunReturned: cmd.Start() in place of cmd.Run(), no Wait.
RunNotAwaited(call) == call.pc \in {"running", "exited"}

\* cmd.Run() has returned: the child has exited, or it never started.
RunReturned(call) == call.pc = "exited"

\* Mutant of KillOnCancel: exec.Command in place of exec.CommandContext.
KillNever(call) == FALSE

\* exec.CommandContext: the child is killed once the context is done.
KillOnCancel(call) == call.ctxDone

\* Mutant of RunsAgain: a failed command is run a second time.
RunsAgainOnError(call) == call.err # "nil" /\ call.runs < 2

\* A handler that got an error from cmd.Run() returns it; it never runs the
\* command again.
RunsAgain(call) == FALSE

\* The finished run as the handler sees it.
RunOf(c) ==
  [started |-> calls[c].child # "none", code |-> calls[c].code, err |-> calls[c].err,
   argv |-> calls[c].argv, stdout |-> bufs[BufferOf(c)].stdout,
   stderr |-> bufs[BufferOf(c)].stderr]

\* The tools main registers, in the order of its mcp.AddTool calls: the name
\* of the mcp.Tool and the handler bound to it.
Registrations ==
  <<[name |-> "zopen_list", handler |-> "ZopenTools.ZopenList"],
    [name |-> "zopen_query", handler |-> "ZopenTools.ZopenQuery"],
    [name |-> "zopen_install", handler |-> "ZopenTools.ZopenInstall"],
    [name |-> "zopen_remove", handler |-> "ZopenTools.ZopenRemove"],
    [name |-> "zopen_upgrade", handler |-> "ZopenTools.ZopenUpgrade"],
    [name |-> "zopen_info", handler |-> "ZopenTools.ZopenInfo"],
    [name |-> "zopen_version", handler |-> "ZopenTools.ZopenVersion"],
    [name |-> "zopen_init", handler |-> "ZopenTools.ZopenInit"],
    [name |-> "zopen_clean", handler |-> "ZopenTools.ZopenClean"],
    [name |-> "zopen_alt", handler |-> "ZopenTools.ZopenAlt"],
    [name |-> "zopen_build", handler |-> "ZopenTools.ZopenBuild"],
    [name |-> "zopen_build_help", handler |-> "ZopenTools.ZopenBuildHelp"],
    [name |-> "zopen_create_repo", handler |-> "ZopenTools.ZopenCreateRepo"],
    [name |-> "zopen_generate", handler |-> "ZopenGenerateTools.ZopenGenerate"],
    [name |-> "zopen_generate_help", handler |-> "ZopenGenerateTools.ZopenGenerateHelp"],
    [name |-> "zopen_generate_version",
     handler |-> "ZopenGenerateTools.ZopenGenerateVersion"],
    [name |-> "zopen_generate_list_licenses",
     handler |-> "ZopenGenerateTools.ZopenGenerateListLicenses"],
    [name |-> "zopen_generate_list_categories",
     handler |-> "ZopenGenerateTools.ZopenGenerateListCategories"],
    [name |-> "zopen_generate_list_build_systems",
     handler |-> "ZopenGenerateTools.ZopenGenerateListBuildSystems"]>>

\* Mutant of AddTool: every zopen-generate tool is registered under the one
\* name zopen_generate.
AddToolFamilyName(registry, tool) ==
  Append(registry,
         IF tool.name \in GenerateTools THEN [tool EXCEPT !.name = "zopen_generate"] ELSE tool)

\* mcp.AddTool(server, tool, handler): one more registration with the server.
AddTool(registry, tool) == Append(registry, tool)

\* The names a tool call can be dispatched under.
RegisteredNames(registry) == {registry[i].name : i \in 1..Len(registry)}

\* The DEBUG variable of the environment: unset, set to the empty string, set.
Environments ==
  {[DEBUG |-> [set |-> FALSE, value |-> << >>]],
   [DEBUG |-> [set |-> TRUE, value |-> << >>]],
   [DEBUG |-> [set |-> TRUE, value |-> S("1")]]}

\* os.Getenv("DEBUG"): the empty string when the variable is unset.
Getenv(e) == IF e.DEBUG.set THEN e.DEBUG.value ELSE << >>

\* Mutant of DebugOn: the log calls are not guarded.
DebugOnAlways(e) == TRUE

\* os.Getenv("DEBUG") != ""
DebugOn(e) == Getenv(e) # << >>

\* log.Printf("Executing: %s", strings.Join(commandToRun, " ")) in the two
\* RunCommand methods, if DEBUG is set.  ZopenBuild and
\* handleZopenCommandInDirectory run their command without logging it.
Executing(e, req, argv) ==
  IF DebugOn(e) /\ req.tool # "zopen_build"
  THEN <<<<"Executing: ">> \o Join(argv, <<" ">>)>>
  ELSE << >>

\* log.Printf("Starting Zopen MCP server in %s mode...", mode), if DEBUG is set.
Starting(e, cfg) ==
  IF DebugOn(e)
  THEN <<<<"Starting Zopen MCP server in ", IF cfg.Remote THEN "REMOTE" ELSE "LOCAL",
           " mode...">>>>
  ELSE << >>

\* log.Fatalf("Server exited with error: %v", err), if DEBUG is set.
Fatal(e, err) ==
  IF DebugOn(e) /\ err # "nil" THEN <<<<"Server exited with error: ", err>>>> ELSE << >>

\* Mutant of ExitStatus: os.Exit(1) is missing, only log.Fatalf ends the
\* process with status 1.
ExitStatusDebugOnly(e, err) == IF err # "nil" /\ DebugOn(e) THEN 1 ELSE 0

\* The exit status of main once server.Run has returned err: log.Fatalf and
\* os.Exit(1) on an error, the return from main otherwise.
ExitStatus(e, err) == IF err # "nil" THEN 1 ELSE 0

\* Mutant of ConfigAfter: the command builder writes the default port back
\* into the shared Config.
ConfigAfterDefaulted(cfg, req) == [cfg EXCEPT !.Port = 22]

\* The handlers and the executors only read the fields of the *Config they
\* share: the Config after the handler of `req` has built and run its command.
ConfigAfter(cfg, req) == cfg

\* main before flag.Parse has been looked at; `pc` is main's position.
Booting ==
  [pc |-> "start", registry |-> << >>, usage |-> FALSE, err |-> "nil", exit |-> 0]

\* main inside server.Run: every tool is registered.
Serving == [Booting EXCEPT !.pc = "running", !.registry = Registrations]

\* An input stream that never ends.
Endless == 0 - 1

\* The server inside its request loop, DEBUG unset, no call in flight.
Init ==
  /\ config \in StartConfigs
  /\ calls = [c \in Calls |-> IdleCall]
  /\ bufs = [c \in Calls |-> EmptyBufs]
  /\ server = Serving
  /\ env = [DEBUG |-> [set |-> FALSE, value |-> << >>]]
  /\ log = << >>
  /\ stdin = Endless

\* The transport dispatches a tool call to its handler.
Receive(c, R) ==
  /\ server.pc = "running"
  /\ stdin # 0
  /\ calls[c].pc = "idle"
  /\ \E req \in R :
       /\ req.tool \in RegisteredNames(server.registry)
       /\ calls' = [calls EXCEPT ![c] = [IdleCall EXCEPT !.pc = "called", !.req = req]]
  /\ stdin' = IF stdin = Endless THEN stdin ELSE stdin - 1
  /\ UNCHANGED <<config, bufs, server, env, log>>

\* The cancellation context of the call fires.
Cancel(c) ==
  /\ calls[c].pc \in {"called", "running"}
  /\ ~calls[c].ctxDone
  /\ calls' = [calls EXCEPT ![c].ctxDone = TRUE]
  /\ UNCHANGED <<config, bufs, server, env, log, stdin>>

\* The handler returns `result` without (further) running anything.
Reply(c, result) ==
  calls' = [calls EXCEPT ![c].pc = "done", ![c].results = Append(@, result)]

\* A required parameter is empty, or the build directory does not exist.
Reject(c) ==
  /\ calls[c].pc = "called"
  /\ EarlyError(config, calls[c].req) # << >>
  /\ Reply(c, ToolResult(EarlyError(config, calls[c].req), TRUE))
  /\ UNCHANGED <<config, bufs, server, env, log, stdin>>

\* ZopenBuild in local mode: filepath.Abs fails (os.Getwd fails on a relative path).
AbsFail(c) ==
  /\ calls[c].pc = "called"
  /\ calls[c].req.tool = "zopen_build"
  /\ ~config.Remote
  /\ RequiredCheck(calls[c].req) = << >>
  /\ ~IsAbs(calls[c].req.args.Directory)
  /\ calls' = [calls EXCEPT
       ![c].pc = "done", ![c].absErr = TRUE,
       ![c].results = Append(@, ToolResult(<<CrossMark, " Error: failed to get absolute path: ",
                                             "getwd: no such file or directory">>, TRUE))]
  /\ UNCHANGED <<config, bufs, server, env, log, stdin>>

\* ZopenGenerateExecutor.RunCommand: exec.LookPath("zopen-generate") fails.
LookPathFail(c) ==
  /\ calls[c].pc = "called"
  /\ calls[c].req.tool \in GenerateTools
  /\ EarlyError(config, calls[c].req) = << >>
  /\ calls' = [calls EXCEPT
       ![c].pc = "done", ![c].err = "notfound",
       ![c].results = Append(@, IF calls[c].req.tool \in UnflaggedTools
                                THEN FlagByError(GenerateNotFound)
                                ELSE FlagByPrefix(GenerateNotFound))]
  /\ UNCHANGED <<config, bufs, server, env, log, stdin>>

\* cmd.Run(): the child process starts.
Start(c) ==
  /\ calls[c].pc = "called"
  /\ EarlyError(config, calls[c].req) = << >>
  /\ ~calls[c].ctxDone
  /\ LET cmd == Command(config, calls[c].req) IN
       calls' = [calls EXCEPT ![c].pc = "running", ![c].argv = cmd.argv,
                              ![c].dir = cmd.dir, ![c].child = "running",
                              ![c].spawned = @ + 1, ![c].runs = @ + 1]
  /\ bufs' = [bufs EXCEPT ![BufferOf(c)] = NewBuffers(@)]
  /\ log' = log \o Executing(env, calls[c].req, Command(config, calls[c].req).argv)
  /\ config' = ConfigAfter(config, calls[c].req)
  /\ UNCHANGED <<server, env, stdin>>

\* cmd.Run(): the child process does not start.  The executable is not found
\* (exec.ErrNotFound; not for zopen-generate, which is run by its path), or
\* Start fails otherwise (the context is already done, chdir or exec fails).
StartFail(c) ==
  /\ calls[c].pc = "called"
  /\ EarlyError(config, calls[c].req) = << >>
  /\ \E e \in IF calls[c].req.tool \in GenerateTools THEN {"other"}
              ELSE {"notfound", "other"} :
       LET cmd == Command(config, calls[c].req) IN
         calls' = [calls EXCEPT ![c].pc = "exited", ![c].argv = cmd.argv,
                                ![c].dir = cmd.dir, ![c].err = e, ![c].runs = @ + 1]
  /\ bufs' = [bufs EXCEPT ![BufferOf(c)] = NewBuffers(@)]
  /\ log' = log \o Executing(env, calls[c].req, Command(config, calls[c].req).argv)
  /\ config' = ConfigAfter(config, calls[c].req)
  /\ UNCHANGED <<server, env, stdin>>

\* The child writes its output and exits by itself.
ChildExit(c, B) ==
  /\ calls[c].pc = "running"
  /\ calls[c].child = "running"
  /\ \E b \in B :
       /\ calls' = [calls EXCEPT ![c].pc = "exited", ![c].child = "exited",
                                 ![c].code = b.code,
                                 ![c].err = IF b.code = 0 THEN "nil" ELSE "exit",
                                 ![c].out = b.out, ![c].errout = b.err]
       /\ bufs' = [bufs EXCEPT ![BufferOf(c)] =
                     [stdout |-> @.stdout \o b.out, stderr |-> @.stderr \o b.err]]
  /\ UNCHANGED <<config, server, env, log, stdin>>

\* The context is done while the child runs: os.Process.Kill, exit status -1.
Kill(c, K) ==
  /\ calls[c].pc = "running"
  /\ calls[c].child = "running"
  /\ KillOnCancel(calls[c])
  /\ \E k \in K :
       /\ calls' = [calls EXCEPT ![c].pc = "exited", ![c].child = "exited",
                                 ![c].code = 0 - 1, ![c].err = "exit",
                                 ![c].out = k.out, ![c].errout = k.err]
       /\ bufs' = [bufs EXCEPT ![BufferOf(c)] =
                     [stdout |-> @.stdout \o k.out, stderr |-> @.stderr \o k.err]]
  /\ UNCHANGED <<config, server, env, log, stdin>>

\* cmd.Run() has returned: the handler formats the outcome and returns.
Return(c) ==
  /\ calls[c].pc \in {"running", "exited"}
  /\ RunReturned(calls[c])
  /\ IF RunsAgain(calls[c])
     THEN calls' = [calls EXCEPT ![c].pc = "called", ![c].child = "none",
                                 ![c].err = "nil"]
     ELSE Reply(c, HandlerResult(config, calls[c].req, RunOf(c)))
  /\ UNCHANGED <<config, bufs, server, env, log, stdin>>

\* The transport sends the result; the call and its locals are gone.  What
\* its buffers held stays behind in memory until a later call declares its own.
Respond(c) ==
  /\ calls[c].pc = "done"
  /\ calls' = [calls EXCEPT ![c] = IdleCall]
  /\ UNCHANGED <<config, bufs, server, env, log, stdin>>

\* One call at a time, every request and every behaviour of the child.
Next ==
  \E c \in {1} :
    \/ Receive(c, Requests)
    \/ Cancel(c)
    \/ Reject(c)
    \/ AbsFail(c)
    \/ LookPathFail(c)
    \/ Start(c)
    \/ StartFail(c)
    \/ ChildExit(c, Behaviours)
    \/ Kill(c, KilledOutputs)
    \/ Return(c)
    \/ Respond(c)

Spec == Init /\ [][Next]_vars

(* ------------------------- cancellation, fairness ---------------------- *)

\* One request per way of running a command: through ZopenExecutor.RunCommand,
\* through ZopenBuild (existing, relative and missing directory) and through
\* ZopenGenerateExecutor.RunCommand.
LiveRequests ==
  {r \in Requests :
     \/ r.tool \in {"zopen_version", "zopen_generate_help"}
     \/ (r.tool = "zopen_build" /\ r.args.Directory \in {S("work"), <<"/", "gone">>}
         /\ ~r.args.Verbose /\ ~r.args.Force)}

NextLive ==
  \E c \in {1} :
    \/ Receive(c, LiveRequests)
    \/ Cancel(c)
    \/ Reject(c)
    \/ AbsFail(c)
    \/ LookPathFail(c)
    \/ Start(c)
    \/ StartFail(c)
    \/ ChildExit(c, Behaviours)
    \/ Kill(c, KilledOutputs)
    \/ Return(c)
    \/ Respond(c)

\* The Go runtime schedules the goroutine of exec.CommandContext that kills the
\* child once the context is done, the operating system ends a killed process,
\* and a handler whose cmd.Run() has returned goes on to its return statement.
\* Nothing makes a child exit by itself.
SpecLive ==
  /\ Init
  /\ [][NextLive]_vars
  /\ WF_vars(Kill(1, KilledOutputs))
  /\ WF_vars(Return(1))

(* ---------------------------- concurrent calls ------------------------- *)

\* The requests of the concurrent calls: one per executor.
ConcRequests == {r \in Requests : r.tool \in {"zopen_version", "zopen_generate_help"}}

\* The children of concurrent calls: a success with output, a failure with
\* diagnostics.
ConcBehaviours ==
  {[out |-> S("out"), err |-> << >>, code |-> 0],
   [out |-> << >>, err |-> S("warn"), code |-> 1]}

\* A child of a concurrent call that is killed has written part of its output.
ConcKilled == {[out |-> S("part"), err |-> << >>]}

InitConc ==
  /\ Init
  /\ config.ZopenPath = << >>
  /\ config.Remote => (config.User # << >> /\ config.Key # << >> /\ config.Port = 2222)

\* The transport dispatches handlers concurrently: every interleaving of the
\* steps of up to NumCalls calls.
NextConc ==
  \E c \in Calls :
    \/ Receive(c, ConcRequests)
    \/ Cancel(c)
    \/ LookPathFail(c)
    \/ Start(c)
    \/ StartFail(c)
    \/ ChildExit(c, ConcBehaviours)
    \/ Kill(c, ConcKilled)
    \/ Return(c)
    \/ Respond(c)

SpecConc == InitConc /\ [][NextConc]_vars

(* ---------------------------- zopen_generate --------------------------- *)

\* zopen_generate with every combination of its nine optional parameters, and
\* one call without its required parameters.
AllGenerateRequests ==
       {[tool |-> "zopen_generate",
         args |-> GenerateParams(S("foo"), S("a tool"), S("utilities"), S("MIT"), o)] :
          o \in SUBSET OptionNames}
  \cup {[tool |-> "zopen_generate",
         args |-> GenerateParams(<< >>, << >>, << >>, << >>, {})]}

\* One zopen_generate call at a time, in either mode.
NextGenerate ==
  \E c \in {1} :
    \/ Receive(c, AllGenerateRequests)
    \/ Reject(c)
    \/ LookPathFail(c)
    \/ Start(c)
    \/ StartFail(c)
    \/ ChildExit(c, ConcBehaviours)
    \/ Return(c)
    \/ Respond(c)

SpecGenerate == InitConc /\ [][NextGenerate]_vars

(* ------------------------------ call pairs ----------------------------- *)

\* The requests of a pair of calls: the read-only tools zopen_version and
\* zopen_list, a generate tool and a build in an existing directory.
PairRequests ==
  {r \in Requests :
     \/ r.tool \in {"zopen_version", "zopen_list", "zopen_generate_version"}
     \/ (r.tool = "zopen_build" /\ r.args.Directory = <<"/", "proj">>
         /\ r.args.Verbose /\ ~r.args.Force)}

\* Two calls, each after and beside any number of earlier ones.
NextPair ==
  \E c \in {1, 2} :
    \/ Receive(c, PairRequests)
    \/ Cancel(c)
    \/ LookPathFail(c)
    \/ Start(c)
    \/ StartFail(c)
    \/ ChildExit(c, ConcBehaviours)
    \/ Kill(c, ConcKilled)
    \/ Return(c)
    \/ Respond(c)

SpecPair == InitConc /\ [][NextPair]_vars

(* --------------------------------- main -------------------------------- *)

\* The flag values main is started with: either mode, with and without --host.
Flags ==
  {c \in Config : c.User = << >> /\ c.Key = << >> /\ c.Port = 22 /\ c.ZopenPath = << >>}

\* The requests of a whole run of the server: one through each RunCommand, a
\* build of an existing directory and a build the handler rejects.
MainRequests ==
  {r \in Requests :
     \/ r.tool \in {"zopen_version", "zopen_generate_help"}
     \/ (r.tool = "zopen_build" /\ r.args.Directory \in {<< >>, <<"/", "proj">>}
         /\ ~r.args.Verbose /\ ~r.args.Force)}

\* The process as the operating system starts it: flags and environment as
\* given, nothing registered, nothing logged.
InitMain ==
  /\ config \in Flags
  /\ calls = [c \in Calls |-> IdleCall]
  /\ bufs = [c \in Calls |-> EmptyBufs]
  /\ server = Booting
  /\ env \in Environments
  /\ log = << >>
  /\ stdin \in 0..MaxRequests

\* if config.Remote && config.Host == "" { fmt.Println(...); flag.Usage(); os.Exit(1) }
CheckFlags ==
  /\ server.pc = "start"
  /\ server' = IF ValidConfig(config) THEN [server EXCEPT !.pc = "register"]
               ELSE [server EXCEPT !.pc = "exited", !.usage = TRUE, !.exit = 1]
  /\ UNCHANGED <<config, calls, bufs, env, log, stdin>>

\* The next mcp.AddTool call of main.
Register ==
  /\ server.pc = "register"
  /\ Len(server.registry) < Len(Registrations)
  /\ server' = [server EXCEPT !.registry = AddTool(@, Registrations[Len(@) + 1])]
  /\ UNCHANGED <<config, calls, bufs, env, log, stdin>>

\* The startup line, then server.Run(ctx, &mcp.StdioTransport{}) is entered.
RunServer ==
  /\ server.pc = "register"
  /\ Len(server.registry) = Len(Registrations)
  /\ log' = log \o Starting(env, config)
  /\ server' = [server EXCEPT !.pc = "running"]
  /\ UNCHANGED <<config, calls, bufs, env, stdin>>

\* server.Run returns: nil once the input stream has ended, or the error of the
\* transport.
RunReturns ==
  /\ server.pc = "running"
  /\ \A c \in Calls : calls[c].pc = "idle"
  /\ \E err \in {"nil", "transport error"} :
       /\ err = "nil" => stdin = 0
       /\ server' = [server EXCEPT !.pc = "returned", !.err = err]
  /\ UNCHANGED <<config, calls, bufs, env, log, stdin>>

\* The end of main: log.Fatalf in debug mode and os.Exit(1) on an error, the
\* return from main otherwise.
Exit ==
  /\ server.pc = "returned"
  /\ log' = log \o Fatal(env, server.err)
  /\ server' = [server EXCEPT !.pc = "exited", !.exit = ExitStatus(env, server.err)]
  /\ UNCHANGED <<config, calls, bufs, env, stdin>>

\* A whole run of the process, one call at a time.
NextMain ==
  \/ CheckFlags
  \/ Register
  \/ RunServer
  \/ RunReturns
  \/ Exit
  \/ \E c \in {1} :
       \/ Receive(c, MainRequests)
       \/ Cancel(c)
       \/ Reject(c)
       \/ LookPathFail(c)
       \/ Start(c)
       \/ StartFail(c)
       \/ ChildExit(c, ConcBehaviours)
       \/ Kill(c, ConcKilled)
       \/ Return(c)
       \/ Respond(c)

SpecMain == InitMain /\ [][NextMain]_vars

\* main is straight-line code after server.Run: once the loop has returned, the
\* process goes on to its end.
SpecMainLive == SpecMain /\ WF_vars(Exit)

(* ------------------------------ properties ----------------------------- *)

\* The handler of call c has returned.
Returned(c) == calls[c].pc = "done" /\ Len(calls[c].results) > 0

\* The result the handler of call c returned, its text and its error flag.
ResultOf(c) == calls[c].results[Len(calls[c].results)]
TextOf(c) == ResultOf(c).Content[1].Text
IsErrorOf(c) == ResultOf(c).IsError

\* The tool catalogue: the required parameters of each tool, by json name.
RequiredNames(tool) ==
  CASE tool \in {"zopen_install", "zopen_remove"} -> {"packages"}
    [] tool = "zopen_info" -> {"package"}
    [] tool = "zopen_build" -> {"directory"}
    [] tool = "zopen_create_repo" -> {"name"}
    [] tool = "zopen_generate" -> {"name", "description", "categories", "license"}
    [] OTHER -> {}

\* A required parameter of the request is empty or absent.
MissingRequired(req) ==
  LET a == req.args IN
  CASE req.tool \in {"zopen_install", "zopen_remove"} -> a.Packages = << >>
    [] req.tool = "zopen_info" -> a.Package = << >>
    [] req.tool = "zopen_build" -> a.Directory = << >>
    [] req.tool = "zopen_create_repo" -> a.Name = << >>
    [] req.tool = "zopen_generate" ->
         a.Name = << >> \/ a.Description = << >> \/ a.Categories = << >> \/ a.License = << >>
    [] OTHER -> FALSE

\* C1: a call with a required parameter empty returns an error result whose
\* text names the required parameters of the tool, and spawns no child.
C1_RequiredParameters ==
  \A c \in Calls :
    /\ MissingRequired(calls[c].req) => calls[c].spawned = 0
    /\ (Returned(c) /\ MissingRequired(calls[c].req)) =>
         /\ IsErrorOf(c)
         /\ \A n \in RequiredNames(calls[c].req.tool) : Contains(TextOf(c), <<n>>)

\* zopen_build with a non-empty directory whose absolute path does not exist.
BuildOfMissingDirectory(c) ==
  /\ calls[c].req.tool = "zopen_build"
  /\ calls[c].req.args.Directory # << >>
  /\ Stat(Abs(calls[c].req.args.Directory)) = "notexist"

ChildExited(c) == calls[c].child = "exited"

\* C3: in local mode a child that exits 0 with empty stdout makes the result
\* text the success marker and the error flag false, for every tool.
C3_SuccessMarker ==
  \A c \in Calls :
    (~config.Remote /\ Returned(c) /\ ChildExited(c) /\ calls[c].code = 0
       /\ calls[c].out = << >>) =>
      (TextOf(c) = SuccessMarker /\ ~IsErrorOf(c))

\* C4: in local mode a child that exits non-zero makes the result text contain
\* the exit code and the captured stderr, and the error flag true, for every tool.
C4_NonZeroExit ==
  \A c \in Calls :
    (~config.Remote /\ Returned(c) /\ ChildExited(c) /\ calls[c].code # 0) =>
      /\ Contains(TextOf(c), IntToStr(calls[c].code))
      /\ Contains(TextOf(c), calls[c].errout)
      /\ IsErrorOf(c)

\* C5: in local mode the executable of every zopen tool call is --zopen-path
\* when that is given, and the bare name zopen otherwise.
C5_ZopenPathOverride ==
  \A c \in Calls :
    (~config.Remote /\ calls[c].argv # << >> /\ calls[c].req.tool \notin GenerateTools) =>
      calls[c].argv[1] = IF config.ZopenPath # << >> THEN config.ZopenPath ELSE S("zopen")

\* The executable the handler of `req` needs.
Executable(cfg, req) ==
  IF req.tool \in GenerateTools THEN "zopen-generate"
  ELSE IF cfg.Remote THEN "ssh" ELSE "zopen"

\* C6: when the executable is not found the result is an error result whose
\* text names the executable and is not in the exit-code format, for every tool.
C6_ExecutableNotFound ==
  \A c \in Calls :
    (Returned(c) /\ calls[c].err = "notfound") =>
      /\ IsErrorOf(c)
      /\ Contains(TextOf(c), <<Executable(config, calls[c].req)>>)
      /\ ~Contains(TextOf(c), <<" Error (Exit Code: ">>)

(* C7 *)

DigitValue(a) == CHOOSE d \in 0..9 : Digit(d) = a

RECURSIVE StrToNat(_)
\* The number a string of decimal digits denotes.
StrToNat(str) ==
  IF Len(str) = 0 THEN 0
  ELSE StrToNat(SubSeq(str, 1, Len(str) - 1)) * 10 + DigitValue(str[Len(str)])

IsDecimal(str) ==
  Len(str) > 0 /\ \A i \in 1..Len(str) : \E d \in 0..9 : Digit(d) = str[i]

RECURSIVE QuotedList(_, _)
\* `text` is the arguments `args`, in order, each between two double quotes,
\* with one space between neighbours.
QuotedList(text, args) ==
  IF Len(args) = 0 THEN text = << >>
  ELSE LET n == Len(args[1]) IN
       /\ Len(text) >= n + 2
       /\ text[1] = "\""
       /\ SubSeq(text, 2, n + 1) = args[1]
       /\ text[n + 2] = "\""
       /\ IF Len(args) = 1 THEN Len(text) = n + 2
          ELSE /\ Len(text) > n + 3
               /\ text[n + 3] = " "
               /\ QuotedList(SubSeq(text, n + 4, Len(text)), Tail(args))

\* `str` is /bin/sh -c ". ~/.profile && zopen <quoted args>".
IsRemoteCommand(str, args) ==
  /\ Len(str) >= 5
  /\ SubSeq(str, 1, 4) = <<"/bin/sh -c ", "\"", ". ~/.profile && ", "zopen ">>
  /\ str[Len(str)] = "\""
  /\ QuotedList(SubSeq(str, 5, Len(str) - 1), args)

HardenedOptions ==
  <<S("-o"), S("StrictHostKeyChecking=no"), S("-o"), S("UserKnownHostsFile=/dev/null"),
    S("-o"), S("LogLevel=ERROR")>>

\* The tools that run their command through ZopenExecutor.RunCommand.
RunCommandTools(req) == req.tool \notin GenerateTools \cup {"zopen_build", "none"}

\* C7: in remote mode the argument vector ZopenExecutor.RunCommand executes is
\* ssh, -p, the port, -i and the key iff the key is non-empty, the three
\* hardened options, the target (user@host or host), and last the remote
\* command /bin/sh -c ". ~/.profile && zopen <args>" with every argument in
\* double quotes, joined by single spaces in their order.
C7_RemoteArgumentVector ==
  \A c \in Calls :
    (config.Remote /\ calls[c].argv # << >> /\ RunCommandTools(calls[c].req)) =>
      LET v == calls[c].argv
          k == IF config.Key # << >> THEN 2 ELSE 0
      IN /\ Len(v) = 11 + k
         /\ v[1] = S("ssh")
         /\ v[2] = S("-p")
         /\ IsDecimal(v[3]) /\ StrToNat(v[3]) = config.Port
         /\ (\E i \in 1..Len(v) : v[i] = S("-i")) <=> (config.Key # << >>)
         /\ config.Key # << >> => (v[4] = S("-i") /\ v[5] = config.Key)
         /\ SubSeq(v, 4 + k, 9 + k) = HardenedOptions
         /\ v[10 + k] = IF config.User # << >> THEN config.User \o <<"@">> \o config.Host
                        ELSE config.Host
         /\ IsRemoteCommand(v[11 + k], ZopenArgs(calls[c].req))

\* C7 witness: remote mode with user, key and port 2222; zopen_install
\* --verbose of two packages is running under ssh.
C7_Witness ==
  \E c \in Calls :
    /\ config.Remote /\ config.Key # << >> /\ config.User # << >> /\ config.Port = 2222
    /\ calls[c].req.tool = "zopen_install"
    /\ calls[c].req.args.Verbose
    /\ Len(calls[c].req.args.Packages) = 2
    /\ calls[c].child = "running"
    /\ Len(calls[c].argv) = 13

(* C9 *)

\* The handler of call c was not stopped by a check before it ran its command.
RanCommand(c) ==
  /\ EarlyError(config, calls[c].req) = << >>
  /\ ~calls[c].absErr
  /\ ~(calls[c].req.tool \in GenerateTools /\ calls[c].err = "notfound")

\* What the child of call c did, as the handler of a call running alone sees it.
OwnRun(c) ==
  [started |-> calls[c].child # "none", code |-> calls[c].code, err |-> calls[c].err,
   argv |-> calls[c].argv, stdout |-> calls[c].out, stderr |-> calls[c].errout]

\* C9: every call runs its command at most once, spawns at most one child and
\* yields exactly one result; a returned call that passed its checks has run
\* its own command exactly once and its result is formatted from that run.
C9_OneChildOneResult ==
  \A c \in Calls :
    /\ calls[c].spawned <= 1
    /\ calls[c].runs <= 1
    /\ Len(calls[c].results) = IF calls[c].pc = "done" THEN 1 ELSE 0
    /\ (Returned(c) /\ RanCommand(c)) =>
         /\ calls[c].runs = 1
         /\ ResultOf(c) = HandlerResult(config, calls[c].req, OwnRun(c))

\* C9 witness: a call whose child exited non-zero has returned, after one run.
C9_Witness ==
  \E c \in Calls :
    /\ Returned(c) /\ ChildExited(c) /\ calls[c].code > 0
    /\ calls[c].runs = 1 /\ calls[c].spawned = 1

(* C8 *)

\* C8: if the context of a call is done while its child runs, the child is
\* eventually terminated and the handler eventually returns; whenever a
\* handler has returned, its child is not running.
C8_CancelTerminates ==
  /\ \A c \in Calls :
       (calls[c].ctxDone /\ calls[c].child = "running") ~> (calls[c].child # "running")
  /\ \A c \in Calls :
       (calls[c].ctxDone /\ calls[c].child = "running") ~> (calls[c].pc = "done")
  /\ [](\A c \in Calls : calls[c].pc = "done" => calls[c].child # "running")

\* C8 witness: a call cancelled while its child ran has returned, its child
\* killed (exit status -1).
C8_Witness ==
  \E c \in Calls :
    /\ Returned(c) /\ calls[c].ctxDone /\ calls[c].spawned = 1
    /\ calls[c].child = "exited" /\ calls[c].code < 0

(* C10 *)

\* A step of the handler or child of one call leaves the locals and buffers of
\* every other call alone.
OwnStateOnly ==
  \A c \in Calls :
    (calls'[c] # calls[c] \/ bufs'[c] # bufs[c]) =>
      \A d \in Calls \ {c} : calls'[d] = calls[d] /\ bufs'[d] = bufs[d]

\* C10: with calls handled concurrently, every returned call's result is the
\* one its handler gives for its own request and its own child's outcome
\* alone, every executed argument vector is the one of the call's own request,
\* no step touches another call's locals or buffers, and no step writes the
\* configuration.
C10_ConcurrentCallsIsolated ==
  /\ [](\A c \in Calls :
          /\ (Returned(c) /\ RanCommand(c)) =>
               ResultOf(c) = HandlerResult(config, calls[c].req, OwnRun(c))
          /\ calls[c].argv # << >> => calls[c].argv = Command(config, calls[c].req).argv)
  /\ [][OwnStateOnly /\ config' = config]_vars

\* C10 witness: one call has returned its own child's output while another
\* call, whose child wrote something else, has not yet returned.
C10_Witness ==
  \E c \in Calls : \E d \in Calls \ {c} :
    /\ Returned(c) /\ ChildExited(c) /\ calls[c].out = S("out")
    /\ TextOf(c) = S("out")
    /\ calls[d].pc = "exited" /\ ChildExited(d) /\ calls[d].errout = S("warn")

(* ------------------------------- startup ------------------------------- *)

\* C11: whenever a tool call is being handled, remote mode implies a non-empty
\* host; a process started in remote mode without a host never registers a
\* tool and never enters the request loop, and when it has ended its exit
\* status is 1.
C11_RemoteModeHasHost ==
  /\ \A c \in Calls :
       calls[c].pc # "idle" => (config.Remote => config.Host # << >>)
  /\ (config.Remote /\ config.Host = << >>) =>
       /\ server.pc \in {"start", "exited"}
       /\ server.registry = << >>
       /\ server.pc = "exited" => server.exit = 1

\* C11 happens: started with --remote and no --host, the process has exited
\* with status 1.
C11_Witness ==
  /\ config.Remote
  /\ config.Host = << >>
  /\ server.pc = "exited"
  /\ server.exit = 1

(* ---------------------------- frame of a call -------------------------- *)

\* C12: no step of any tool call, whatever the tool, its parameters and the
\* outcome of its child process, changes a field of the Config.
C12_ConfigReadOnly == [][config' = config]_vars

\* C12 happens: a remote zopen_build with a key and a port of its own has run
\* its ssh child and returned.
C12_Witness ==
  /\ Returned(1)
  /\ calls[1].req.tool = "zopen_build"
  /\ ChildExited(1)
  /\ config.Remote
  /\ config.Port = 2222
  /\ config.Key # << >>

(* ------------------------------ idempotence ---------------------------- *)

\* The child processes of calls c and d behaved alike: both started or both
\* failed to start in the same way, same exit status, same stdout and stderr.
SameBehaviour(c, d) ==
  /\ calls[c].child = calls[d].child
  /\ calls[c].err = calls[d].err
  /\ calls[c].code = calls[d].code
  /\ calls[c].out = calls[d].out
  /\ calls[c].errout = calls[d].errout

\* C13: two calls of the same tool with the same parameters under the same
\* Config whose child processes behave alike return the same text and the
\* same error flag, whatever calls were handled before either of them.
C13_SameCallSameResult ==
  \A c \in Calls : \A d \in Calls \ {c} :
    (/\ Returned(c)
     /\ Returned(d)
     /\ calls[c].req = calls[d].req
     /\ SameBehaviour(c, d)) =>
      (TextOf(c) = TextOf(d) /\ IsErrorOf(c) = IsErrorOf(d))

\* C13 happens: zopen_version has been called twice, both children wrote the
\* same output and exited with status 0, and both calls have returned.
C13_Witness ==
  /\ Returned(1)
  /\ Returned(2)
  /\ calls[1].req.tool = "zopen_version"
  /\ calls[2].req = calls[1].req
  /\ ChildExited(1)
  /\ ChildExited(2)
  /\ SameBehaviour(1, 2)
  /\ calls[1].out = S("out")
  /\ calls[1].code = 0

(* ------------------------------ zopen_clean ---------------------------- *)

\* The options of zopen_clean in their declared order, each with its token.
CleanOptions ==
  <<[name |-> "Cache", token |-> S("--cache")],
    [name |-> "Unused", token |-> S("--unused")],
    [name |-> "Dangling", token |-> S("--dangling")],
    [name |-> "All", token |-> S("--all")]>>

\* The parameter object `a` has the option of this name set.
CleanOptionSet(a, name) ==
  CASE name = "Cache" -> a.Cache
    [] name = "Unused" -> a.Unused
    [] name = "Dangling" -> a.Dangling
    [] name = "All" -> a.All

\* `args` is "clean" followed by exactly the tokens of the options set in `a`,
\* in declared order, none twice.
IsCleanArgs(args, a) ==
  /\ Len(args) >= 1
  /\ args[1] = S("clean")
  /\ \A k \in 1..Len(CleanOptions) :
       CleanOptionSet(a, CleanOptions[k].name)
         <=> (\E i \in 2..Len(args) : args[i] = CleanOptions[k].token)
  /\ \A i \in 2..Len(args) : \E k \in 1..Len(CleanOptions) : args[i] = CleanOptions[k].token
  /\ \A i \in 2..Len(args) : \A j \in 2..Len(args) :
       i < j => \E k \in 1..Len(CleanOptions) : \E l \in 1..Len(CleanOptions) :
                  k < l /\ args[i] = CleanOptions[k].token /\ args[j] = CleanOptions[l].token

\* The list of the tokens of the options set in `a`, written out.
CleanTokens(a) ==
  LET pick(k) == IF CleanOptionSet(a, CleanOptions[k].name)
                 THEN <<CleanOptions[k].token>> ELSE << >>
  IN pick(1) \o pick(2) \o pick(3) \o pick(4)

\* C14: a zopen_clean call runs, for each of the 16 combinations of its four
\* booleans, "clean" followed by exactly the tokens of the true options in the
\* order --cache, --unused, --dangling, --all, none repeated: as the arguments
\* of zopen in local mode, and quoted inside the remote command in remote mode.
C14_CleanFlags ==
  \A c \in Calls :
    (calls[c].req.tool = "zopen_clean" /\ calls[c].runs > 0) =>
      IF config.Remote
      THEN /\ IsCleanArgs(<<S("clean")>> \o CleanTokens(calls[c].req.args), calls[c].req.args)
           /\ IsRemoteCommand(calls[c].argv[Len(calls[c].argv)],
                               <<S("clean")>> \o CleanTokens(calls[c].req.args))
      ELSE /\ calls[c].argv[1] = S("zopen")
           /\ IsCleanArgs(Tail(calls[c].argv), calls[c].req.args)

\* C14 happens: zopen_clean with cache, dangling and all set, unused not set,
\* has run its command in local mode.
C14_Witness ==
  /\ calls[1].req.tool = "zopen_clean"
  /\ calls[1].runs > 0
  /\ ~config.Remote
  /\ calls[1].req.args = [Cache |-> TRUE, Unused |-> FALSE, Dangling |-> TRUE, All |-> TRUE]

(* ----------------------------- zopen_generate -------------------------- *)

\* The number of elements of `argv` that are the token.
Occurrences(argv, token) == Cardinality({i \in 1..Len(argv) : argv[i] = token})

\* C15: the argument vector a zopen_generate call executes holds the token
\* --non-interactive exactly once, whichever of the nine optional parameters
\* are given; a call that passes the required-parameter check and finds
\* zopen-generate executes such a vector.
C15_NonInteractiveOnce ==
  \A c \in Calls :
    calls[c].req.tool = "zopen_generate" =>
      /\ calls[c].runs > 0 => Occurrences(calls[c].argv, S("--non-interactive")) = 1
      /\ (Returned(c) /\ RequiredCheck(calls[c].req) = << >> /\ calls[c].err # "notfound")
           => calls[c].runs > 0

\* C15 happens: zopen_generate with type, dev_url and force given, and the
\* other six optional parameters absent, has run its command.
C15_Witness ==
  /\ calls[1].req.tool = "zopen_generate"
  /\ calls[1].runs > 0
  /\ calls[1].req.args.Type # << >>
  /\ calls[1].req.args.DevUrl # << >>
  /\ calls[1].req.args.Force
  /\ calls[1].req.args.BuildSystem = << >>
  /\ calls[1].req.args.StableUrl = << >>
  /\ calls[1].req.args.StableDeps = << >>
  /\ calls[1].req.args.DevDeps = << >>
  /\ calls[1].req.args.BuildLine = << >>
  /\ calls[1].req.args.RuntimeDeps = << >>

(* -------------------------------- logging ------------------------------ *)

\* C16: while DEBUG is unset or set to the empty string, nothing has been
\* written through the log package: not at startup, not around any command a
\* tool runs, not when the request loop has ended with an error.
C16_QuietWithoutDebug ==
  (~env.DEBUG.set \/ env.DEBUG.value = << >>) => log = << >>

\* C16 happens: DEBUG is unset, a command has run and written output, the
\* request loop has ended with an error and the process has exited, and the
\* log is empty.
C16_Witness ==
  /\ ~env.DEBUG.set
  /\ server.pc = "exited"
  /\ server.err # "nil"
  /\ bufs[1].stdout # << >>
  /\ log = << >>

(* ------------------------------ termination ---------------------------- *)

\* C17: a process started with a valid configuration ends only after its
\* request loop has returned; once the loop has returned the process ends;
\* its exit status is 0 if the loop returned no error and 1 if it returned an
\* error, with DEBUG set or not.
C17_ExitStatus ==
  /\ [](~(config.Remote /\ config.Host = << >>) /\ server.pc = "exited"
          => /\ server.err = "nil" => server.exit = 0
             /\ server.err # "nil" => server.exit = 1)
  /\ [][~(config.Remote /\ config.Host = << >>) /\ server'.pc = "exited"
          => server.pc = "returned"]_vars
  /\ (server.pc = "returned") ~> (server.pc = "exited")

\* C17 happens: the input stream has ended after a request whose command ran,
\* the loop has returned no error and the process has exited with status 0.
C17_Witness ==
  /\ server.pc = "exited"
  /\ server.err = "nil"
  /\ server.exit = 0
  /\ stdin = 0
  /\ bufs[1].stdout = S("out")

(* ------------------------------ registration --------------------------- *)

\* The tool catalogue: the 13 zopen tools and the 6 zopen_generate tools.
Catalogue ==
  {"zopen_list", "zopen_query", "zopen_install", "zopen_remove", "zopen_upgrade",
   "zopen_info", "zopen_version", "zopen_init", "zopen_clean", "zopen_alt",
   "zopen_build", "zopen_build_help", "zopen_create_repo"}
  \cup
  {"zopen_generate", "zopen_generate_help", "zopen_generate_version",
   "zopen_generate_list_licenses", "zopen_generate_list_categories",
   "zopen_generate_list_build_systems"}

\* The request loop has been entered.
LoopStarted == server.pc \in {"running", "returned"}

\* C18: once the request loop has started, every tool of the catalogue has
\* been registered exactly once, nothing else has, no two registrations share
\* a name or a handler; and from then on the registrations never change.
C18_RegisteredOnceBeforeLoop ==
  /\ [](LoopStarted =>
          /\ \A n \in Catalogue :
               Cardinality({i \in 1..Len(server.registry) : server.registry[i].name = n}) = 1
          /\ \A i \in 1..Len(server.registry) : server.registry[i].name \in Catalogue
          /\ \A i \in 1..Len(server.registry) : \A j \in 1..Len(server.registry) :
               i # j => /\ server.registry[i].name # server.registry[j].name
                        /\ server.registry[i].handler # server.registry[j].handler)
  /\ [][LoopStarted => server'.registry = server.registry]_vars

\* C18 happens: the loop has started with 19 registrations and a tool call has
\* been dispatched.
C18_Witness ==
  /\ server.pc = "running"
  /\ Len(server.registry) = 19
  /\ calls[1].pc = "called"

(* ------------------------------- zopen_build --------------------------- *)

\* "build", then "-vv" if verbose, then "-f" if force.
BuildArgs(a) ==
  <<S("build")>> \o (IF a.Verbose THEN <<S("-vv")>> ELSE << >>)
                 \o (IF a.Force THEN <<S("-f")>> ELSE << >>)

\* `str` with the step "cd <directory> && " put in after its first three
\* pieces: /bin/sh -c, the opening quote and the profile-sourcing step.
WithCdStep(str, directory) ==
  SubSeq(str, 1, 3) \o <<"cd ">> \o directory \o <<" && ">> \o SubSeq(str, 4, Len(str))

\* The handler of call c has run its command once, with at most one child.
RanOnce(c) ==
  /\ calls[c].runs = 1
  /\ calls[c].spawned = IF calls[c].child = "none" THEN 0 ELSE 1

\* C19: a zopen_build call that has returned, for a directory that exists, has
\* run one command.  In local mode it is zopen build [-vv] [-f] with the
\* absolute path of the directory as working directory.  In remote mode it is
\* the ssh command buildSSHCommand builds for the same arguments, with
\* "cd <directory> && " between the profile-sourcing step and the zopen
\* invocation of the remote command string, and no working directory.
C19_BuildInDirectory ==
  \A c \in Calls :
    LET a == calls[c].req.args
        base == buildSSHCommand(config, BuildArgs(a))
        n == Len(base)
    IN (calls[c].req.tool = "zopen_build" /\ Returned(c) /\ a.Directory # << >>) =>
         IF ~config.Remote
         THEN (Stat(Abs(a.Directory)) = "ok" /\ ~calls[c].absErr) =>
                /\ RanOnce(c)
                /\ calls[c].argv = <<S("zopen")>> \o BuildArgs(a)
                /\ IsAbs(calls[c].dir)
                /\ calls[c].dir = Abs(a.Directory)
         ELSE /\ RanOnce(c)
              /\ calls[c].dir = << >>
              /\ Len(calls[c].argv) = n
              /\ calls[c].argv[1] = S("ssh")
              /\ \A i \in 1..(n - 1) : calls[c].argv[i] = base[i]
              /\ base[n][3] = ". ~/.profile && "
              /\ base[n][4] = "zopen "
              /\ calls[c].argv[n] = WithCdStep(base[n], a.Directory)

\* C19 happens: a remote zopen_build of /proj with verbose and force has run
\* its ssh child and returned.
C19_Witness ==
  /\ Returned(1)
  /\ calls[1].req.tool = "zopen_build"
  /\ calls[1].req.args = [Directory |-> <<"/", "proj">>, Verbose |-> TRUE, Force |-> TRUE]
  /\ config.Remote
  /\ config.User # << >>
  /\ calls[1].child = "exited"
  /\ calls[1].spawned = 1

(* ---------------------------- result envelope -------------------------- *)

\* C20: every result a handler has returned, after a validation failure, a
\* missing executable, a non-zero exit, a cancellation or a success, carries
\* exactly one content item, a text, and comes with a nil error value.
C20_OneTextNoError ==
  \A c \in Calls :
    \A k \in 1..Len(calls[c].results) :
      /\ Len(calls[c].results[k].Content) = 1
      /\ DOMAIN calls[c].results[k].Content[1] = {"Text"}
      /\ calls[c].results[k].Err = "nil"

\* C20 happens: a call whose context was cancelled and whose child was killed
\* has returned its one result.
C20_Witness ==
  /\ Returned(1)
  /\ Len(calls[1].results) = 1
  /\ calls[1].ctxDone
  /\ calls[1].child = "exited"
  /\ calls[1].code = 0 - 1

(* ------------------------ zopen-generate and the mode ------------------ *)

\* The six tools that run zopen-generate.
SixGenerateTools ==
  {"zopen_generate", "zopen_generate_help", "zopen_generate_version",
   "zopen_generate_list_licenses", "zopen_generate_list_categories",
   "zopen_generate_list_build_systems"}

\* The non-empty texts the remote configuration holds: host, user, key, port.
RemoteFields(cfg) == {cfg.Host, cfg.User, cfg.Key, IntToStr(cfg.Port)} \ {<< >>}

\* C21: the command a zopen-generate tool has run is the one it runs in local
\* mode for the same parameters: its executable is the zopen-generate found
\* by the local lookup and not the ssh client, its argument vector is the
\* same under every start configuration, and none of its elements holds
\* the host, the user, the key or the port of the configuration.
C21_GenerateIgnoresMode ==
  \A c \in Calls :
    (calls[c].req.tool \in SixGenerateTools /\ calls[c].runs > 0) =>
      /\ calls[c].argv[1] = GeneratePath
      /\ calls[c].argv[1] # S("ssh")
      /\ calls[c].dir = << >>
      /\ \A cfg \in StartConfigs : Command(cfg, calls[c].req).argv = calls[c].argv
      /\ \A i \in 1..Len(calls[c].argv) : \A f \in RemoteFields(config) :
           ~Contains(calls[c].argv[i], f)

\* C21 happens: in remote mode with a user, a key and a port of its own,
\* zopen_generate_list_licenses has run its command and the child has exited.
C21_Witness ==
  /\ config.Remote
  /\ config.User # << >>
  /\ config.Key # << >>
  /\ config.Port = 2222
  /\ calls[1].req.tool = "zopen_generate_list_licenses"
  /\ calls[1].runs > 0
  /\ calls[1].child = "exited"

====
